---- MODULE Spec2Model ----
(***************************************************************************)
(* mongodb-queue: a work queue kept in one MongoDB collection.             *)
(*                                                                         *)
(* The model follows src/mongodb-queue.js.  One collection `col` backs the *)
(* source queue, a second collection `dead` backs its dead queue.  Every   *)
(* store round-trip (findOneAndUpdate, one operation of a bulkWrite,       *)
(* deleteMany, createIndex) is one atomic step; a get that dead-letters    *)
(* takes several round-trips and other calls and the clock interleave      *)
(* with them.                                                              *)
(*                                                                         *)
(* Store semantics the queries rely on:                                    *)
(*   { f : null }            matches a document whose f is missing or null *)
(*   { f : { $exists : true } } matches a document that has f, null or not *)
(*   updateOne + upsert      with no match inserts a document built from   *)
(*                           the filter's equality fields, then applies    *)
(*                           the update                                    *)
(*   unique sparse index     holds every document that has the field, a    *)
(*                           null value included, one document per value   *)
(***************************************************************************)
EXTENDS Integers, Sequences, FiniteSets, TLC

\* ---------------------------------------------------------------- bounds
MaxTime == 2            \* the clock runs 0..MaxTime
MaxDocs == 2            \* documents ever inserted into the source collection
MaxAcks == 3            \* ack tokens ever minted by get
MaxDead == 1            \* documents ever inserted into the dead queue
MaxBatch == 2           \* payloads in one add
MaxWrites == 2          \* add operations that write one document

Consumers == {1, 2}     \* callers of get

\* ------------------------------------------------------ field encodings
Absent == -2            \* the field is missing from the document / option bag
Null   == -1            \* the field is present and null
Debounced == 0          \* the '(debounced)' id slot of add's result
Date == 0               \* deleted : now(), a timestamp no query reads

IsNull(x)  == x \in {Absent, Null}      \* { f : null }
Exists(x)  == x # Absent                \* { f : { $exists : true } }
Truthy(x)  == x \notin {Absent, Null, 0}
JsOr(a, b) == IF Truthy(a) THEN a ELSE b    \* a || b

DefaultVisibility == 30
DefaultMaxRetries == 5
Infinity == 1000000

VARIABLES
    now,        \* wall clock, seconds
    self,       \* the Queue object's fields, fixed by the constructor
    col,        \* the source collection: a set of documents
    nextId,     \* next _id the store assigns in col
    nextAck,    \* next value id() returns
    indexed,    \* createIndexes has built the unique sparse index on ack
    dead,       \* the dead queue's collection
    call,       \* per consumer: the get call under way or last finished
    known,      \* the ack tokens that get has handed to a callback
    hist        \* history, per _id: what add wrote last, how often, and whether an ack succeeded

vars == <<now, self, col, nextId, nextAck, indexed, dead, call, known, hist>>

\* ------------------------------------------------------------- helpers
nowPlusSecs(secs) == now + secs

\* function(mongoDbClient, name, opts): the constructor, lines 33-54
Queue(opts) ==
    [ visibility |-> JsOr(opts.visibility, DefaultVisibility),
      delay      |-> JsOr(opts.delay, 0),
      deadQueue  |-> opts.deadQueue,
      maxRetries |-> IF opts.deadQueue
                     THEN JsOr(opts.maxRetries, DefaultMaxRetries)
                     ELSE JsOr(opts.maxRetries, Infinity) ]

\* a store that sorts by _id descending
MinId_Largest(ds) == CHOOSE d \in ds : \A e \in ds : d._id >= e._id

\* sort : { _id : 1 }: the first document in _id order
MinId(ds) == CHOOSE d \in ds : \A e \in ds : d._id <= e._id
Replace(c, d, e) == (c \ {d}) \cup {e}

NoMsg  == [ id |-> 0, ack |-> 0, payload |-> 0, tries |-> 0 ]
NoCall == [ pc |-> "idle", visibility |-> Absent, msg |-> NoMsg, cbs |-> <<>> ]
NoHist == [ payload |-> 0, writes |-> 0, acked |-> FALSE ]

\* ------------------------------------------------------------------ add
\* var delay = opts.delay || self.delay
AddDelay(opts) == JsOr(opts.delay, self.delay)
\* var visible = delay ? nowPlusSecs(delay) : now()
AddVisible(delay) == IF Truthy(delay) THEN nowPlusSecs(delay) ELSE now
\* var debounce = opts.debounce || null
AddDebounce(opts) == JsOr(opts.debounce, Null)

\* insertOne : { visible, payload }
InsertOne(c, nid, visible, payload) ==
    [ col |-> c \cup {[ _id |-> nid, payload |-> payload, visible |-> visible,
                        ack |-> Absent, tries |-> 0, deleted |-> Absent,
                        debounce |-> Absent ]},
      id |-> nid, wrote |-> nid, err |-> FALSE ]

\* the filter of the debounce updateOne: { ack : null, deleted : null, debounce : debounce }
DebounceFilter(d, debounce) ==
    IsNull(d.ack) /\ IsNull(d.deleted) /\ d.debounce = debounce

\* an upsert whose filter never matches: every debounced add inserts
UpdateOneUpsert_NeverMatches(c, nid, visible, payload, debounce) ==
    [ col |-> c \cup {[ _id |-> nid, payload |-> payload, visible |-> visible,
                        ack |-> Null, tries |-> 0, deleted |-> Null,
                        debounce |-> debounce ]},
      id |-> nid, wrote |-> nid, err |-> FALSE ]

\* an upsert whose update pushes visible forward and keeps the old payload
UpdateOneUpsert_KeepsPayload(c, nid, visible, payload, debounce) ==
    LET matches == { d \in c : DebounceFilter(d, debounce) } IN
    IF matches # {}
    THEN LET d == MinId(matches) IN
         [ col |-> Replace(c, d, [d EXCEPT !.visible = visible]),
           id |-> Debounced, wrote |-> d._id, err |-> FALSE ]
    ELSE [ col |-> c \cup {[ _id |-> nid, payload |-> payload, visible |-> visible,
                             ack |-> Null, tries |-> 0, deleted |-> Null,
                             debounce |-> debounce ]},
           id |-> nid, wrote |-> nid, err |-> FALSE ]

\* updateOne : { filter, update : { $set : { visible, payload } }, upsert : true }
UpdateOneUpsert(c, nid, visible, payload, debounce) ==
    LET matches == { d \in c : DebounceFilter(d, debounce) } IN
    IF matches # {}
    THEN LET d == MinId(matches) IN
         [ col |-> Replace(c, d, [d EXCEPT !.visible = visible, !.payload = payload]),
           id |-> Debounced, wrote |-> d._id, err |-> FALSE ]
    ELSE IF indexed /\ \E d \in c : d.ack = Null
    THEN \* E11000: a second document with ack : null in the unique index
         [ col |-> c, id |-> Debounced, wrote |-> 0, err |-> TRUE ]
    ELSE [ col |-> c \cup {[ _id |-> nid, payload |-> payload, visible |-> visible,
                             ack |-> Null, tries |-> 0, deleted |-> Null,
                             debounce |-> debounce ]},
           id |-> nid, wrote |-> nid, err |-> FALSE ]

\* one element of `operations` run by the store
BulkOp(c, nid, visible, payload, debounce) ==
    IF debounce # Null
    THEN UpdateOneUpsert(c, nid, visible, payload, debounce)
    ELSE InsertOne(c, nid, visible, payload)

\* self.col.bulkWrite(operations, ...), lines 161-162: the store runs the
\* operations in order and stops at the first error
RECURSIVE bulkWrite(_, _, _, _, _)
bulkWrite(c, nid, visible, payloads, debounce) ==
    IF payloads = <<>>
    THEN [ col |-> c, nextId |-> nid, wrote |-> <<>>, err |-> FALSE ]
    ELSE LET r == BulkOp(c, nid, visible, Head(payloads), debounce) IN
         IF r.err
         THEN [ col |-> c, nextId |-> nid, wrote |-> <<>>, err |-> TRUE ]
         ELSE LET s == bulkWrite(r.col, IF r.id = nid THEN nid + 1 ELSE nid,
                                 visible, Tail(payloads), debounce) IN
              [ s EXCEPT !.wrote = <<[ id |-> r.wrote, payload |-> Head(payloads) ]>> \o @ ]

\* per document, the payload add wrote last and how many operations wrote it
RECURSIVE Wrote(_, _)
Wrote(h, ws) ==
    IF ws = <<>> THEN h
    ELSE Wrote([h EXCEPT ![Head(ws).id].payload = Head(ws).payload,
                         ![Head(ws).id].writes = @ + 1], Tail(ws))

\* Queue.prototype.add, lines 117-175
Add(payloads, opts) ==
    /\ UNCHANGED <<now, self, nextAck, indexed, dead, call, known>>
    /\ IF Len(payloads) <= 0
       THEN \* return callback(new Error(errMsg))
            UNCHANGED <<col, nextId, hist>>
       ELSE \E r \in { bulkWrite(col, nextId, AddVisible(AddDelay(opts)),
                                 payloads, AddDebounce(opts)) } :
                /\ col' = r.col
                /\ nextId' = r.nextId
                /\ hist' = Wrote(hist, r.wrote)

\* ------------------------------------------------------------ ping, ack
\* a lease query that forgets the deadline
LeaseQuery_AnyVisible(d, ack) == d.ack = ack /\ IsNull(d.deleted)

\* query of ping and ack: { ack : ack, visible : { $gt : now() }, deleted : null }
LeaseQuery(d, ack) == d.ack = ack /\ d.visible > now /\ IsNull(d.deleted)

\* findOneAndUpdate(query, update): the document the store picks, if any
FindOne(matches) == IF matches = {} THEN {} ELSE {MinId(matches)}

\* Queue.prototype.ack, lines 269-289, as the store and the callback run it
ack(c, token) ==
    LET found == FindOne({ d \in c : LeaseQuery(d, token) }) IN
    IF found = {}
    THEN [ col |-> c, ok |-> FALSE, id |-> 0 ]
    ELSE LET d == CHOOSE x \in found : TRUE IN
         [ col |-> Replace(c, d, [d EXCEPT !.deleted = Date]), ok |-> TRUE, id |-> d._id ]

\* Queue.prototype.ping, lines 242-267
ping(c, token, opts) ==
    LET visibility == JsOr(opts.visibility, self.visibility)
        found == FindOne({ d \in c : LeaseQuery(d, token) }) IN
    IF found = {}
    THEN [ col |-> c, ok |-> FALSE, id |-> 0 ]
    ELSE LET d == CHOOSE x \in found : TRUE IN
         [ col |-> Replace(c, d, [d EXCEPT !.visible = nowPlusSecs(visibility)]),
           ok |-> TRUE, id |-> d._id ]

MarkAcked(r) == IF r.ok THEN [hist EXCEPT ![r.id].acked = TRUE] ELSE hist

Ack(token) ==
    \E r \in { ack(col, token) } :
        /\ col' = r.col
        /\ hist' = MarkAcked(r)
        /\ UNCHANGED <<now, self, nextId, nextAck, indexed, dead, call, known>>

Ping(token, opts) ==
    \E r \in { ping(col, token, opts) } :
        /\ col' = r.col
        /\ UNCHANGED <<now, self, nextId, nextAck, indexed, dead, call, known, hist>>

\* ------------------------------------------------------------------ get
\* a get whose filter forgets the visible deadline
GetQuery_AnyVisible(d) == IsNull(d.deleted)
\* a get whose filter forgets the deleted mark
GetQuery_AnyDeleted(d) == d.visible <= now

\* query of get: { deleted : null, visible : { $lte : now() } }
GetQuery(d) == IsNull(d.deleted) /\ d.visible <= now

\* update of get: { $inc : { tries : 1 }, $set : { ack : id(), visible : nowPlusSecs(visibility) } }
GetUpdate(d, visibility) ==
    [d EXCEPT !.tries = @ + 1, !.ack = nextAck, !.visible = nowPlusSecs(visibility)]

\* convert to an external representation, lines 206-212
External(d) == [ id |-> d._id, ack |-> d.ack, payload |-> d.payload, tries |-> d.tries ]

CbMsg(m) == [ kind |-> "msg", msg |-> m ]
CbEmpty  == [ kind |-> "empty", msg |-> NoMsg ]
CbErr    == [ kind |-> "err", msg |-> NoMsg ]

\* findOneAndUpdate of get and its callback, lines 200-239; rec is the call so far
Claim(c, visibility, rec) ==
    LET found == FindOne({ d \in col : GetQuery(d) }) IN
    IF found = {}
    THEN \* if (!msg) return callback()
         /\ call' = [call EXCEPT ![c] = [rec EXCEPT !.pc = "done", !.cbs = Append(@, CbEmpty)]]
         /\ UNCHANGED <<col, nextAck, known>>
    ELSE LET d == CHOOSE x \in found : TRUE
             e == GetUpdate(d, visibility)
             msg == External(e) IN
         /\ col' = Replace(col, d, e)
         /\ nextAck' = nextAck + 1
         /\ known' = IF msg.tries > self.maxRetries /\ self.deadQueue
                     THEN known ELSE known \cup {msg.ack}
         /\ call' = [call EXCEPT ![c] =
              IF msg.tries > self.maxRetries
              THEN IF self.deadQueue
                   THEN \* self.deadQueue.add(msg, ...); return
                        [rec EXCEPT !.pc = "deadAdd", !.msg = msg]
                   ELSE \* self.ack(msg.ack, ...) is sent and callback(null, msg) runs
                        [rec EXCEPT !.pc = "ack", !.msg = msg, !.cbs = Append(@, CbMsg(msg))]
              ELSE [rec EXCEPT !.pc = "done", !.cbs = Append(@, CbMsg(msg))]]

\* Queue.prototype.get, lines 177-240: the call and its first round-trip
Get(c, opts) ==
    /\ call[c].pc \in {"idle", "done"}
    /\ Claim(c, JsOr(opts.visibility, self.visibility),
             [NoCall EXCEPT !.visibility = opts.visibility])
    /\ UNCHANGED <<now, self, nextId, indexed, dead, hist>>

\* a dead-letter step that forgets to add the message to the dead queue
GetDeadAdd_NoCopy(c) ==
    /\ call[c].pc = "deadAdd"
    /\ call' = [call EXCEPT ![c].pc = "ack"]
    /\ UNCHANGED <<now, self, col, nextId, nextAck, indexed, dead, known, hist>>

\* a dead-letter step that copies the payload alone, without id, ack and tries
GetDeadAdd_PayloadOnly(c) ==
    /\ call[c].pc = "deadAdd"
    /\ dead' = dead \cup {[ _id |-> Cardinality(dead) + 1,
                            payload |-> [ NoMsg EXCEPT !.payload = call[c].msg.payload ],
                            visible |-> now ]}
    /\ call' = [call EXCEPT ![c].pc = "ack"]
    /\ UNCHANGED <<now, self, col, nextId, nextAck, indexed, known, hist>>

\* self.deadQueue.add(msg, ...), line 220: the dead queue is a Queue built
\* with no options, so its add inserts { visible : now(), payload : msg }
GetDeadAdd(c) ==
    /\ call[c].pc = "deadAdd"
    /\ dead' = dead \cup {[ _id |-> Cardinality(dead) + 1, payload |-> call[c].msg,
                            visible |-> now ]}
    /\ call' = [call EXCEPT ![c].pc = "ack"]
    /\ UNCHANGED <<now, self, col, nextId, nextAck, indexed, known, hist>>

\* self.ack(msg.ack, ...), lines 222-225 and 231-234
GetAck(c) ==
    /\ call[c].pc = "ack"
    /\ \E r \in { ack(col, call[c].msg.ack) } :
          /\ col' = r.col
          /\ hist' = MarkAcked(r)
          /\ call' = [call EXCEPT ![c] =
                        IF r.ok THEN [@ EXCEPT !.pc = "claim"]
                        ELSE [@ EXCEPT !.pc = "done", !.cbs = Append(@, CbErr)]]
    /\ UNCHANGED <<now, self, nextId, nextAck, indexed, dead, known>>

\* self.get(callback), lines 224 and 233: opts is {} in the recursive call
GetRecurse(c) ==
    /\ call[c].pc = "claim"
    /\ Claim(c, JsOr(Absent, self.visibility), call[c])
    /\ UNCHANGED <<now, self, nextId, indexed, dead, hist>>

\* the process stops between two round-trips of a get: the pending callbacks
\* of lines 220-224 and 231-233 never run
Crash(c) ==
    /\ call[c].pc \in {"deadAdd", "ack", "claim"}
    /\ call' = [call EXCEPT ![c] = NoCall]
    /\ UNCHANGED <<now, self, col, nextId, nextAck, indexed, dead, known, hist>>

\* a round-trip of the dead-letter path fails in the store:
\* if (err) return callback(err), lines 201, 221, 223, 232
StoreError(c) ==
    /\ call[c].pc \in {"deadAdd", "ack", "claim"}
    /\ call' = [call EXCEPT ![c].pc = "done", ![c].cbs = Append(@, CbErr)]
    /\ UNCHANGED <<now, self, col, nextId, nextAck, indexed, dead, known, hist>>

\* ---------------------------------------------------- clean, createIndexes
\* query of clean: { deleted : { $exists : true } }
CleanQuery(d) == Exists(d.deleted)

\* Queue.prototype.clean, lines 291-299: deleteMany(query)
Clean ==
    /\ col' = { d \in col : ~CleanQuery(d) }
    /\ UNCHANGED <<now, self, nextId, nextAck, indexed, dead, call, known, hist>>

\* Queue.prototype.createIndexes, lines 56-74: the unique sparse index on ack
\* cannot be built over two documents that hold the same ack value
CreateIndexes ==
    LET dup == \E d, e \in col : d # e /\ Exists(d.ack) /\ d.ack = e.ack IN
    /\ indexed' = (indexed \/ ~dup)
    /\ UNCHANGED <<now, self, col, nextId, nextAck, dead, call, known, hist>>

\* ------------------------------------------ total, size, inFlight, done
\* query of size: { deleted : null, visible : { $lte : now() } }
SizeQuery(d) == IsNull(d.deleted) /\ d.visible <= now
\* query of inFlight: { ack : { $exists : true }, visible : { $gt : now() }, deleted : null }
InFlightQuery(d) == Exists(d.ack) /\ d.visible > now /\ IsNull(d.deleted)
\* query of done: { deleted : { $exists : true } }
DoneQuery(d) == Exists(d.deleted)

\* Queue.prototype.total, size, inFlight, done, lines 301-350: col.count(query)
total(c)    == Cardinality(c)
size(c)     == Cardinality({ d \in c : SizeQuery(d) })
inFlight(c) == Cardinality({ d \in c : InFlightQuery(d) })
done(c)     == Cardinality({ d \in c : DoneQuery(d) })

\* ---------------------------------------------------------------- clock
Tick ==
    /\ now' = now + 1
    /\ UNCHANGED <<self, col, nextId, nextAck, indexed, dead, call, known, hist>>

\* ------------------------------------------------------- specifications
InitWith(queueOpts) ==
    /\ now = 0
    /\ self \in { Queue(o) : o \in queueOpts }
    /\ col = {}
    /\ nextId = 1
    /\ nextAck = 1
    /\ indexed = FALSE
    /\ dead = {}
    /\ call = [ c \in Consumers |-> NoCall ]
    /\ known = {}
    /\ hist = [ i \in 1..MaxDocs + MaxBatch + 1 |-> NoHist ]

\* a batch of at most MaxBatch payloads; <<>> is the empty array
Batches(payloads) == UNION { [1..n -> payloads] : n \in 0..MaxBatch }
\* the documents and the coalescing an add may reach
AddBound == nextId <= MaxDocs + 1 /\ \A i \in DOMAIN hist : hist[i].writes <= MaxWrites
\* the tokens a client can pass to ack and ping: those a get returned, and
\* 0, a token no get ever returned
Minted == {0} \cup known

\* Every queue configuration; one consumer, one payload, one debounce key.
QueueOpts ==
    [ visibility : {1}, delay : {Absent, 1},
      deadQueue : BOOLEAN, maxRetries : {Absent, 1} ]
AddOpts == [ delay : {Absent, 0, 1}, debounce : {Absent, 1} ]
NoOpts  == [ visibility : {Absent} ]
BatchesOfOne == Batches({1})

Init == InitWith(QueueOpts)

Next ==
    \/ \E ps \in BatchesOfOne, o \in AddOpts : Add(ps, o) /\ AddBound'
    \/ \E o \in NoOpts : Get(1, o) /\ nextAck' <= MaxAcks + 1
    \/ GetDeadAdd(1) /\ Cardinality(dead') <= MaxDead
    \/ GetAck(1)
    \/ GetRecurse(1) /\ nextAck' <= MaxAcks + 1
    \/ \E t \in Minted : Ack(t)
    \/ \E t \in Minted, o \in NoOpts : Ping(t, o)
    \/ Clean
    \/ CreateIndexes
    \/ now < MaxTime /\ Tick

Spec == Init /\ [][Next]_vars

\* The same with two consumers whose get calls interleave.
NextConsumers ==
    \/ \E ps \in BatchesOfOne, o \in AddOpts : Add(ps, o) /\ AddBound'
    \/ \E c \in Consumers, o \in NoOpts : Get(c, o) /\ nextAck' <= MaxAcks + 1
    \/ \E c \in Consumers : GetDeadAdd(c) /\ Cardinality(dead') <= MaxDead
    \/ \E c \in Consumers : GetAck(c)
    \/ \E c \in Consumers : GetRecurse(c) /\ nextAck' <= MaxAcks + 1
    \/ \E t \in Minted : Ack(t)
    \/ \E t \in Minted, o \in NoOpts : Ping(t, o)
    \/ Clean
    \/ CreateIndexes
    \/ now < MaxTime /\ Tick

SpecConsumers == Init /\ [][NextConsumers]_vars

\* Queues with no default delay; add gives the delay in its options.
QueueOptsNoDelay ==
    [ visibility : {1}, delay : {Absent},
      deadQueue : BOOLEAN, maxRetries : {Absent, 1} ]
InitNoDelay == InitWith(QueueOptsNoDelay)

\* Two debounce keys.
KeysOpts == [ delay : {Absent, 1}, debounce : {Absent, 1, 2} ]

NextKeys ==
    \/ \E ps \in BatchesOfOne, o \in KeysOpts : Add(ps, o) /\ AddBound'
    \/ \E o \in NoOpts : Get(1, o) /\ nextAck' <= MaxAcks + 1
    \/ GetDeadAdd(1) /\ Cardinality(dead') <= MaxDead
    \/ GetAck(1)
    \/ GetRecurse(1) /\ nextAck' <= MaxAcks + 1
    \/ \E t \in Minted : Ack(t)
    \/ \E t \in Minted, o \in NoOpts : Ping(t, o)
    \/ Clean
    \/ CreateIndexes
    \/ now < MaxTime /\ Tick

SpecKeys == InitNoDelay /\ [][NextKeys]_vars

\* Two payloads.
PayloadsOpts == [ delay : {Absent, 1}, debounce : {Absent, 1} ]
BatchesOfTwo == Batches({1, 2})

NextPayloads ==
    \/ \E ps \in BatchesOfTwo, o \in PayloadsOpts : Add(ps, o) /\ AddBound'
    \/ \E o \in NoOpts : Get(1, o) /\ nextAck' <= MaxAcks + 1
    \/ GetDeadAdd(1) /\ Cardinality(dead') <= MaxDead
    \/ GetAck(1)
    \/ GetRecurse(1) /\ nextAck' <= MaxAcks + 1
    \/ \E t \in Minted : Ack(t)
    \/ \E t \in Minted, o \in NoOpts : Ping(t, o)
    \/ Clean
    \/ CreateIndexes
    \/ now < MaxTime /\ Tick

SpecPayloads == InitNoDelay /\ [][NextPayloads]_vars

\* get and ping called with and without a visibility of their own.
VisOpts == [ visibility : {Absent, 2} ]
DebounceOpts == [ delay : {Absent}, debounce : {Absent, 1} ]

NextVisibility ==
    \/ \E ps \in BatchesOfOne, o \in DebounceOpts : Add(ps, o) /\ AddBound'
    \/ \E o \in VisOpts : Get(1, o) /\ nextAck' <= MaxAcks + 1
    \/ GetDeadAdd(1) /\ Cardinality(dead') <= MaxDead
    \/ GetAck(1)
    \/ GetRecurse(1) /\ nextAck' <= MaxAcks + 1
    \/ \E t \in Minted : Ack(t)
    \/ \E t \in Minted, o \in VisOpts : Ping(t, o)
    \/ Clean
    \/ CreateIndexes
    \/ now < MaxTime /\ Tick

SpecVisibility == InitNoDelay /\ [][NextVisibility]_vars

\* A queue with a dead queue, whose get may crash or meet a store error
\* between its round-trips.
QueueOptsDead ==
    [ visibility : {1}, delay : {Absent}, deadQueue : {TRUE}, maxRetries : {1} ]
InitDead == InitWith(QueueOptsDead)

NextCrash ==
    \/ \E ps \in BatchesOfOne, o \in DebounceOpts : Add(ps, o) /\ AddBound'
    \/ \E o \in NoOpts : Get(1, o) /\ nextAck' <= MaxAcks + 1
    \/ GetDeadAdd(1) /\ Cardinality(dead') <= MaxDead + 1
    \/ GetAck(1)
    \/ GetRecurse(1) /\ nextAck' <= MaxAcks + 1
    \/ Crash(1)
    \/ StoreError(1)
    \/ \E t \in Minted : Ack(t)
    \/ \E t \in Minted, o \in NoOpts : Ping(t, o)
    \/ Clean
    \/ CreateIndexes
    \/ now < MaxTime /\ Tick

SpecCrash == InitDead /\ [][NextCrash]_vars

\* A get whose callbacks run: once a round-trip of the dead-letter path is
\* sent, the store answers and the callback takes the next step. The bounds
\* are on the calls that start, never on a step inside a call.
QueueOptsRetry ==
    [ visibility : {1}, delay : {Absent}, deadQueue : BOOLEAN, maxRetries : {1} ]
InitRetry == InitWith(QueueOptsRetry)
PlainOpts == [ delay : {Absent}, debounce : {Absent} ]

NextFair ==
    \/ \E ps \in BatchesOfOne, o \in PlainOpts : Add(ps, o) /\ AddBound'
    \/ \E o \in NoOpts : Get(1, o) /\ nextAck' <= MaxAcks
    \/ GetDeadAdd(1)
    \/ GetAck(1)
    \/ GetRecurse(1)
    \/ \E t \in Minted : Ack(t)
    \/ \E t \in Minted, o \in NoOpts : Ping(t, o)
    \/ Clean
    \/ CreateIndexes
    \/ now < MaxTime /\ Tick

SpecFair ==
    /\ InitRetry /\ [][NextFair]_vars
    /\ WF_vars(GetDeadAdd(1)) /\ WF_vars(GetAck(1)) /\ WF_vars(GetRecurse(1))

\* ------------------------------------------------------------- vocabulary
\* the lease of a document is live: a token is set, the deadline is ahead, not acked
LiveLease(d) == d.ack >= 1 /\ d.visible > now /\ IsNull(d.deleted)
Last(q) == q[Len(q)]
\* this step hands a message to the callback of consumer c's get
Delivers(c) ==
    /\ call'[c].cbs # call[c].cbs
    /\ call'[c].cbs # <<>>
    /\ Last(call'[c].cbs).kind = "msg"
Delivered(c) == Last(call'[c].cbs).msg

\* C1: a document whose lease is live is not claimed by any get, so its token
\* stays the one ack and ping accept; a message that a get returns was not
\* under a live lease; and no two documents ever hold the same ack token.
C1_LeaseMutualExclusion ==
    [][ /\ \A d \in col : LiveLease(d) =>
              \A e \in col' : e._id = d._id => e.ack = d.ack
        /\ \A c \in Consumers : Delivers(c) =>
              /\ \A d \in col : d._id = Delivered(c).id => ~LiveLease(d)
              /\ \A d \in col : d.ack # Delivered(c).ack
        /\ \A d, e \in col' : (d # e /\ d.ack >= 1) => d.ack # e.ack ]_vars

\* two consumers hold two live leases at once, under distinct tokens
C1_Witness ==
    \E d, e \in col :
        /\ d # e /\ LiveLease(d) /\ LiveLease(e)
        /\ call[1].pc = "done" /\ call[1].cbs = <<CbMsg(External(d))>>
        /\ call[2].pc = "done" /\ call[2].cbs = <<CbMsg(External(e))>>

\* ack(token) and ping(token) would succeed in this state
Accepts(token) == ack(col, token).ok /\ ping(col, token, [ visibility |-> Absent ]).ok
Rejects(token) == ~ack(col, token).ok /\ ~ping(col, token, [ visibility |-> Absent ]).ok
\* the document that holds the token, in a collection
Holder(c, token) == { d \in c : d.ack = token }

\* C2: a token a get returned is accepted by ping and ack from the claim until
\* the first successful ack or until the deadline (as pings moved it) passes;
\* from then on both reject it for ever.
C2_TokenLifetime ==
    [][ /\ \A c \in Consumers, t \in 1..MaxAcks :
              Delivers(c) /\ t = Delivered(c).ack => Accepts(t)'
        /\ \A t \in 1..nextAck - 1 :
              /\ Accepts(t) \/ Rejects(t)
              /\ Accepts(t) =>
                    \/ Accepts(t)'
                    \/ \E d \in Holder(col', t) : ~IsNull(d.deleted) /\ Rejects(t)'
                    \/ \E d \in Holder(col', t) : d.visible <= now' /\ Rejects(t)'
              /\ Rejects(t) => Rejects(t)' ]_vars

\* C3: a message for which an ack succeeded is never handed to a get's
\* callback again, whatever add (debounced or not), get, ping, ack and the
\* clock do afterwards.
C3_AckedNeverReturned ==
    [][ \A c \in Consumers : Delivers(c) => ~hist[Delivered(c).id].acked ]_vars

\* an acked document is past its deadline and first in _id order, and a later
\* get passed over it and claimed the next document
C3_Witness ==
    \E d, e \in col :
        /\ hist[d._id].acked /\ ~IsNull(d.deleted) /\ d.visible <= now
        /\ d._id < e._id /\ e.ack > d.ack /\ e.tries = 1
        /\ e.visible = now + self.visibility
        /\ \E c \in Consumers : call[c].pc = "done" /\ call[c].cbs = <<CbMsg(External(e))>>

\* C4: no message handed to a get's callback has tries above maxRetries,
\* with a dead queue and without one.
C4_NoOverRetriedDelivered ==
    \A c \in Consumers : \A i \in DOMAIN call[c].cbs :
        call[c].cbs[i].kind = "msg" => call[c].cbs[i].msg.tries <= self.maxRetries

\* consumer c's get has ended after it put the over-retried message m on
\* the dead-letter path
DeadLettered(c, m) ==
    self.deadQueue /\ call[c].pc = "done" /\ call[c].msg = m /\ m # NoMsg
Copies(m) == { x \in dead : x.payload = m }
Msgs == { External(d) : d \in col } \cup { call[c].msg : c \in Consumers }

Waiting(d) == IsNull(d.ack) /\ IsNull(d.deleted)
Carriers(k) == { d \in col : d.debounce = k }

\* C6: for every debounce key, at most one Pending or Delayed document
\* carries it.
C6_OneWaitingPerKey ==
    \A k \in {1, 2} : Cardinality({ d \in Carriers(k) : Waiting(d) }) <= 1

\* a second add with the key was coalesced into the waiting document while an
\* earlier document with the same key is leased or done
C6_Witness ==
    \E d, e \in col :
        /\ d.debounce = 1 /\ e.debounce = 1
        /\ ~Waiting(d)
        /\ Waiting(e) /\ hist[e._id].writes = 2

C8_PayloadRoundTrip ==
    [][ /\ \A c \in Consumers : Delivers(c) =>
              Delivered(c).payload = hist[Delivered(c).id].payload
        /\ \A d \in col : (Waiting(d) /\ d.debounce # Absent) =>
              \A p \in {1, 2} : \A r \in { bulkWrite(col, nextId, now, <<p>>, d.debounce) } :
                  /\ r.nextId = nextId
                  /\ Cardinality(r.col) = Cardinality(col)
                  /\ \E e \in r.col : e._id = d._id /\ e.payload = p ]_vars

\* two debounced adds wrote one message and a get returned it with the payload
\* of the second
C8_Witness ==
    \E d \in col :
        /\ hist[d._id].writes = 2 /\ hist[d._id].payload = 2 /\ d.tries = 1
        /\ call[1].pc = "done" /\ call[1].cbs = <<CbMsg(External(d))>>
        /\ call[1].cbs[1].msg.payload = 2
        /\ Cardinality(col) = 1 /\ nextId = 2

\* the delay an add asks for, as the claims read it: opts.delay when given
AskedDelay(o) == IF o.delay # Absent THEN o.delay ELSE self.delay
\* the documents this step's add wrote
Written == { i \in DOMAIN hist : hist'[i].writes > hist[i].writes }

\* C9: a message added at time t with a delay d > 0 becomes visible at t + d,
\* also when a debounced add restarts the wait; until then no get returns it,
\* and from then on it is there for a get to claim.
C9_DelayedDelivery ==
    [][ /\ \A ps \in BatchesOfOne, o \in AddOpts :
              (Add(ps, o) /\ AskedDelay(o) > 0) =>
                  \A i \in Written : \E e \in col' :
                      e._id = i /\ e.visible = now + AskedDelay(o)
        /\ \A c \in Consumers : Delivers(c) =>
              \A d \in col : d._id = Delivered(c).id => d.visible <= now
        /\ \A d \in col : (d.tries = 0 /\ IsNull(d.deleted)) =>
              /\ d.visible <= now => GetQuery(d)
              /\ d.visible <= now
                 \/ d \in col'
                 \/ d._id \in Written ]_vars

\* C10: the delay of an add is opts.delay whenever it is given, 0 included,
\* and the queue's default otherwise.
C10_ExplicitDelayWins ==
    [][ \A ps \in BatchesOfOne, o \in AddOpts : Add(ps, o) =>
            \A i \in Written : \E e \in col' :
                e._id = i /\ e.visible = now + AskedDelay(o) ]_vars

\* C11: a claimed message that is not acked stays in the collection and is
\* claimable again once its deadline has passed; the get that claims a message
\* returns its id with a token no document held and with tries one above the
\* document's; tries starts at 0 in a new document and grows only by claims.
C11_LeaseExpiryRedelivery ==
    [][ /\ \A d \in col : (d.tries >= 1 /\ IsNull(d.deleted)) =>
              /\ d.visible <= now => GetQuery(d)
              /\ \E e \in col' : e._id = d._id /\ e.tries \in {d.tries, d.tries + 1}
        /\ \A c \in Consumers : Delivers(c) =>
              /\ \E d \in col : /\ d._id = Delivered(c).id
                                /\ Delivered(c).tries = d.tries + 1
              /\ \A d \in col : d.ack # Delivered(c).ack
        /\ \A e \in col' : (\A d \in col : d._id # e._id) => e.tries = 0 ]_vars

\* the visibility a get or ping with options o works with
AskedVisibility(o) == JsOr(o.visibility, self.visibility)

\* C12: a ping that succeeds at time p sets the deadline to p plus the
\* visibility it works with; while a lease is live ack and ping accept its
\* token and no get matches its document; and a live lease stays as it is
\* until a ping moves its deadline, an ack ends it, or the clock reaches the
\* deadline.
C12_PingExtension ==
    [][ /\ \A t \in known, o \in VisOpts : (ping(col, t, o).ok /\ Ping(t, o)) =>
              \A d \in Holder(col', t) : d.visible = now + AskedVisibility(o)
        /\ \A d \in col : LiveLease(d) =>
              /\ Accepts(d.ack)
              /\ ~GetQuery(d)
              /\ \E e \in col' :
                    /\ e._id = d._id /\ e.ack = d.ack
                    /\ \/ ~IsNull(e.deleted)
                       \/ e.visible = d.visible
                       \/ \E o \in VisOpts : e.visible = now + AskedVisibility(o) ]_vars

\* the tokens a caller may hold: 0 was never minted, the others were or will be
Tokens == 0..MaxAcks + 1

\* C13: when no document holds a live lease under token t, ack(t) and ping(t)
\* fail with the unidentified ack error and leave the collection as it is.
C13_UnidentifiedAck ==
    \A t \in Tokens : (\A d \in col : ~(LiveLease(d) /\ d.ack = t)) =>
        /\ ~ack(col, t).ok /\ ack(col, t).col = col
        /\ \A o \in VisOpts : ~ping(col, t, o).ok /\ ping(col, t, o).col = col

\* the callers hold a token superseded by a re-claim, the token of an acked
\* message and the token of an expired lease, and 0 is unknown
C13_Witness ==
    \E d, e \in col :
        /\ d.tries = 2 /\ hist[d._id].acked /\ ~IsNull(d.deleted)
        /\ e.tries = 1 /\ IsNull(e.deleted) /\ e.visible <= now
        /\ d.ack \in known /\ e.ack \in known
        /\ \E t \in known : \A x \in col : x.ack # t
        /\ \A t \in Minted : Rejects(t)

\* C14: size + inFlight + done <= total, and no document counted by inFlight
\* is counted by size or by done.
C14_CounterConsistency ==
    /\ size(col) + inFlight(col) + done(col) <= total(col)
    /\ \A d \in col : InFlightQuery(d) => ~SizeQuery(d) /\ ~DoneQuery(d)

\* C15: clean deletes the documents that an ack marked deleted and no other:
\* every Pending, Delayed, Leased or Expired-lease document stays, unchanged.
C15_CleanRemovesExactlyDone ==
    [][ Clean => col' = { d \in col : IsNull(d.deleted) } ]_vars

\* this step hands the empty result to the callback of consumer c's get
DeliversEmpty(c) ==
    /\ call'[c].cbs # call[c].cbs
    /\ call'[c].cbs # <<>>
    /\ Last(call'[c].cbs).kind = "empty"

\* C16: the message a get returns was claimable at the claim and had the
\* smallest _id of all claimable documents, expired leases included; the
\* empty result comes only when no document is claimable.
C16_ClaimOrder ==
    [][ \A c \in Consumers :
          /\ Delivers(c) =>
                \E d \in col : /\ d._id = Delivered(c).id
                               /\ GetQuery(d)
                               /\ \A x \in col : GetQuery(x) => x._id >= d._id
          /\ DeliversEmpty(c) => \A x \in col : ~GetQuery(x) ]_vars

\* a get re-claimed the first message, whose lease had expired, while a
\* younger message that was never claimed is waiting and visible
C16_Witness ==
    \E d, e \in col :
        /\ d._id < e._id
        /\ d.tries = 2 /\ LiveLease(d)
        /\ e.tries = 0 /\ GetQuery(e)
        /\ call[1].pc = "done" /\ call[1].cbs = <<CbMsg(External(d))>>

\* a document the dead-letter path marked Done: on a queue with a dead queue
\* no caller ever holds the token of an over-retried claim, so only the
\* get's own ack can have set deleted
Retired(d) == self.deadQueue /\ d.tries > self.maxRetries /\ ~IsNull(d.deleted)

\* C17: every document that the dead-letter path marked Done has a copy of its
\* external representation in the dead queue, whatever crashes, store errors
\* and lease expiries came between the round-trips of get; and every message of
\* the dead queue is an over-retried claim of the source queue.
C17_DeadLetterLosesNothing ==
    /\ \A d \in col : Retired(d) => \E x \in dead : x.payload = External(d)
    /\ \A x \in dead : x.payload.tries > self.maxRetries

\* a get crashed after the add to the dead queue, the lease ran out, and a
\* later get dead-lettered the message again and marked it Done: two copies
C17_Witness ==
    \E d \in col :
        /\ Retired(d) /\ d.tries = 3
        /\ \E x, y \in dead : /\ x # y /\ x.payload.id = d._id /\ y.payload.id = d._id
                              /\ y.payload = External(d)

\* consumer c's get is between two round-trips of the over-retry path
InGet(c) == call[c].pc \in {"deadAdd", "ack", "claim"}
\* no callback of consumer c's get carried an error
NoErr(c) == \A i \in DOMAIN call[c].cbs : call[c].cbs[i].kind # "err"

\* C18: a get that took the over-retry path ends; when it ends without an
\* error, what it handed to its caller is the empty result or a message with
\* tries <= maxRetries; and the recursive get is sent only once the
\* over-retried message is marked Done.
C18_GetTerminates ==
    /\ \A c \in {1} : InGet(c) ~> call[c].pc = "done"
    /\ [](\A c \in {1} : (call[c].pc = "done" /\ NoErr(c)) =>
             \A i \in DOMAIN call[c].cbs :
                 \/ call[c].cbs[i].kind = "empty"
                 \/ call[c].cbs[i].msg.tries <= self.maxRetries)
    /\ [](\A c \in {1} : call[c].pc = "claim" =>
             \A d \in col : d._id = call[c].msg.id => ~IsNull(d.deleted))

\* C19: a get hands its caller one callback: never a second one, and exactly
\* one once the call has ended.
C19_CallbackOnce ==
    \A c \in Consumers :
        /\ Len(call[c].cbs) <= 1
        /\ call[c].pc = "done" => Len(call[c].cbs) = 1

\* C20: the message a get hands to its caller is leased for the visibility
\* the call was given (the queue's when it was given none), also when the
\* message was claimed by the recursive get of the over-retry path.
C20_GetVisibility ==
    [][ \A c \in Consumers : Delivers(c) =>
            \A d \in col' : d._id = Delivered(c).id =>
                d.visible = now + JsOr(call'[c].visibility, self.visibility) ]_vars

TypeOK ==
    /\ now \in 0..MaxTime
    /\ nextId \in 1..MaxDocs + 1
    /\ nextAck \in 1..MaxAcks + 1
    /\ \A d \in col : d._id \in 1..MaxDocs /\ d.tries \in 0..MaxAcks
====
